---- MODULE Spec2Model ----
(***************************************************************************)
(* Duplicate-question detector: the lexical services (src/server.js 1-398, *)
(* src/src/services/questionService.js) and the semantic service with the  *)
(* Gemini judge, the Bottleneck limiter and the similarity cache           *)
(* (src/server.js 399-980), as one state machine of concurrent requests.   *)
(***************************************************************************)
EXTENDS Integers, Sequences, FiniteSets, TLC

(***************************************************************************)
(* Texts are sequences of one-character strings.                           *)
(***************************************************************************)
\* String.prototype.toLowerCase, per character
ToLowerChar(c) ==
  CASE c = "A" -> "a"
    [] c = "B" -> "b"
    [] c = "C" -> "c"
    [] c = "D" -> "d"
    [] OTHER -> c

toLowerCase(s) == [k \in 1..Len(s) |-> ToLowerChar(s[k])]

IsSpace(c) == c = " "

\* s.replace(/\s+/g, '')
RECURSIVE StripSpaces(_)
StripSpaces(s) ==
  IF s = <<>> THEN <<>>
  ELSE IF IsSpace(Head(s)) THEN StripSpaces(Tail(s))
       ELSE <<Head(s)>> \o StripSpaces(Tail(s))

\* q.trim().length > 0
NonBlank(s) == \E k \in 1..Len(s) : ~IsSpace(s[k])

(***************************************************************************)
(* Scores are exact rationals n/d in lowest terms.                         *)
(***************************************************************************)
RECURSIVE Gcd(_, _)
Gcd(a, b) == IF b = 0 THEN a ELSE Gcd(b, a % b)

Frac(n, d) == IF n = 0 THEN [n |-> 0, d |-> 1]
              ELSE [n |-> n \div Gcd(n, d), d |-> d \div Gcd(n, d)]

GT(x, y) == x.n * y.d > y.n * x.d
GE(x, y) == x.n * y.d >= y.n * x.d
LT(x, y) == GT(y, x)

Zero == Frac(0, 1)
One == Frac(1, 1)

(***************************************************************************)
(* stringSimilarity.compareTwoStrings: Dice coefficient over the bigrams   *)
(* of the two texts with whitespace removed.                               *)
(***************************************************************************)
Bigram(s, k) == <<s[k], s[k + 1]>>

\* firstBigrams.get(bigram) before any match: occurrences of b in first
CountBigram(first, b) ==
  Cardinality({k \in 1..(Len(first) - 1) : Bigram(first, k) = b})

\* how often b was already matched (firstBigrams.set(bigram, count - 1))
CountUsed(used, b) == Cardinality({k \in 1..Len(used) : used[k] = b})

\* the loop over the bigrams of second, from position k
RECURSIVE Intersect(_, _, _, _)
Intersect(first, second, k, used) ==
  IF k > Len(second) - 1 THEN 0
  ELSE LET b == Bigram(second, k)
       IN IF CountBigram(first, b) - CountUsed(used, b) > 0
          THEN 1 + Intersect(first, second, k + 1, used \o <<b>>)
          ELSE Intersect(first, second, k + 1, used)

compareTwoStrings(a, b) ==
  LET first == StripSpaces(a)
      second == StripSpaces(b)
  IN IF first = second THEN One
     ELSE IF Len(first) < 2 \/ Len(second) < 2 THEN Zero
     ELSE Frac(2 * Intersect(first, second, 1, <<>>),
               Len(first) + Len(second) - 2)

(***************************************************************************)
(* Judge responses are token sequences: the structural characters          *)
(* { } [ ] , : " \ and the space are tokens of their own, any other run    *)
(* of characters (a word, a number, a fence) is one token.                 *)
(***************************************************************************)
Quote == "\""
Backslash == "\\"
IsCloser(t) == t \in {"]", "}"}

\* the index of the closer that ends ,\s*[\]}] starting at the comma at k,
\* or 0 when the comma at k does not start a match
RECURSIVE CloserAfter(_, _)
CloserAfter(s, k) ==
  IF k + 1 > Len(s) THEN 0
  ELSE IF IsCloser(s[k + 1]) THEN k + 1
  ELSE IF IsSpace(s[k + 1]) THEN CloserAfter(s, k + 1)
  ELSE 0

\* jsonString.replace(/,\s*([\]}])/g, '$1'): comma and blanks dropped
RECURSIVE DropCommaAndBlanks(_, _)
DropCommaAndBlanks(s, k) ==
  IF k > Len(s) THEN <<>>
  ELSE IF s[k] = "," /\ CloserAfter(s, k) > 0
       THEN <<s[CloserAfter(s, k)]>> \o DropCommaAndBlanks(s, CloserAfter(s, k) + 1)
       ELSE <<s[k]>> \o DropCommaAndBlanks(s, k + 1)

\* jsonString.replace(/,(\s*[\]}])/g, '$1'): comma dropped, blanks kept
RECURSIVE DropComma(_, _)
DropComma(s, k) ==
  IF k > Len(s) THEN <<>>
  ELSE IF s[k] = "," /\ CloserAfter(s, k) > 0
       THEN SubSeq(s, k + 1, CloserAfter(s, k)) \o DropComma(s, CloserAfter(s, k) + 1)
       ELSE <<s[k]>> \o DropComma(s, k + 1)

\* jsonString.replace(/(?<!\\)(\")/g, '\\$1'): every quote that does not
\* follow a backslash gets one
RECURSIVE EscapeQuotes(_, _)
EscapeQuotes(s, k) ==
  IF k > Len(s) THEN <<>>
  ELSE IF s[k] = Quote /\ (k = 1 \/ s[k - 1] # Backslash)
       THEN <<Backslash, Quote>> \o EscapeQuotes(s, k + 1)
       ELSE <<s[k]>> \o EscapeQuotes(s, k + 1)

sanitizeJsonString(jsonString) ==
  EscapeQuotes(DropComma(DropCommaAndBlanks(jsonString, 1), 1), 1)

\* text.indexOf('{') and text.lastIndexOf('}'), 1-based, 0 when absent
IndexOf(s, t) ==
  IF \E k \in 1..Len(s) : s[k] = t
  THEN CHOOSE k \in 1..Len(s) : s[k] = t /\ \A m \in 1..(k - 1) : s[m] # t
  ELSE 0

LastIndexOf(s, t) ==
  IF \E k \in 1..Len(s) : s[k] = t
  THEN CHOOSE k \in 1..Len(s) : s[k] = t /\ \A m \in (k + 1)..Len(s) : s[m] # t
  ELSE 0

\* text.slice(jsonStart, jsonEnd) for 1-based inclusive indices
Slice(s, from, to) == IF from > to THEN <<>> ELSE SubSeq(s, from, to)

(***************************************************************************)
(* JSON.parse, for the objects the judge is asked for: a flat object whose *)
(* values are numbers, booleans, strings or arrays of strings.             *)
(***************************************************************************)
NumberValue(t) ==
  CASE t = "0.92" -> Frac(92, 100)
    [] t = "0.7" -> Frac(7, 10)
    [] t = "0" -> Frac(0, 1)
    [] OTHER -> Frac(0, 1)

IsNumber(t) == t \in {"0.92", "0.7", "0"}
IsStructural(t) == t \in {"{", "}", "[", "]", ",", ":", Quote, Backslash, " "}

SyntaxError == [ok |-> FALSE, keys |-> {}, num |-> <<>>, bool |-> <<>>]

\* the parser state: st is the position in the grammar, key the member name
\* being read, keys/num/bool the members parsed so far
RECURSIVE ParseFrom(_, _, _, _, _)
ParseFrom(s, k, st, key, obj) ==
  IF k > Len(s) THEN (IF st = "end" THEN obj ELSE SyntaxError)
  ELSE
    LET t == s[k]
        go(st2) == ParseFrom(s, k + 1, st2, key, obj)
        withKey(st2) == [obj EXCEPT !.keys = @ \cup {key}]
    IN CASE st \in {"key", "str", "arrstr"} ->
              IF t = Backslash THEN SyntaxError
              ELSE IF t = Quote
              THEN (IF st = "key" THEN go("colon")
                    ELSE IF st = "str"
                    THEN ParseFrom(s, k + 1, "after", key, withKey("after"))
                    ELSE go("arrafter"))
              ELSE IF st = "key" THEN ParseFrom(s, k + 1, st, t, obj)
              ELSE go(st)
         [] IsSpace(t) -> go(st)
         [] st = "start" -> IF t = "{" THEN go("open") ELSE SyntaxError
         [] st = "open" ->
              IF t = Quote THEN go("key")
              ELSE IF t = "}" THEN go("end") ELSE SyntaxError
         [] st = "next" -> IF t = Quote THEN go("key") ELSE SyntaxError
         [] st = "colon" -> IF t = ":" THEN go("value") ELSE SyntaxError
         [] st = "value" ->
              IF IsNumber(t)
              THEN ParseFrom(s, k + 1, "after", key,
                             [withKey("after") EXCEPT
                                !.num = [x \in (DOMAIN @) \cup {key} |->
                                           IF x = key THEN NumberValue(t) ELSE @[x]]])
              ELSE IF t \in {"true", "false"}
              THEN ParseFrom(s, k + 1, "after", key,
                             [withKey("after") EXCEPT
                                !.bool = [x \in (DOMAIN @) \cup {key} |->
                                            IF x = key THEN t = "true" ELSE @[x]]])
              ELSE IF t = Quote THEN go("str")
              ELSE IF t = "[" THEN go("arr")
              ELSE SyntaxError
         [] st = "arr" ->
              IF t = "]" THEN ParseFrom(s, k + 1, "after", key, withKey("after"))
              ELSE IF t = Quote THEN go("arrstr") ELSE SyntaxError
         [] st = "arrafter" ->
              IF t = "]" THEN ParseFrom(s, k + 1, "after", key, withKey("after"))
              ELSE IF t = "," THEN go("arrnext") ELSE SyntaxError
         [] st = "arrnext" -> IF t = Quote THEN go("arrstr") ELSE SyntaxError
         [] st = "after" ->
              IF t = "}" THEN go("end")
              ELSE IF t = "," THEN go("next") ELSE SyntaxError
         [] OTHER -> SyntaxError

EmptyObject == [ok |-> TRUE, keys |-> {}, num |-> <<>>, bool |-> <<>>]

JsonParse(jsonString) == ParseFrom(jsonString, 1, "start", "", EmptyObject)

(***************************************************************************)
(* Configuration                                                           *)
(***************************************************************************)
SIMILARITY_THRESHOLD == Frac(85, 100)
PREFILTER_THRESHOLD == Frac(6, 10)
\* mostSimilar.similarity > 0.6 ? mostSimilar.question : null
REPORTING_FLOOR == Frac(6, 10)
\* 1000 in the source; scaled down so that an over-long batch is enumerable
MAX_QUESTIONS_PER_BATCH == 3
\* config/config.js of the modular service
MAX_QUESTIONS == 3
CONFIG_SIMILARITY_THRESHOLD == Frac(85, 100)

(***************************************************************************)
(* Bounds and input universe                                               *)
(***************************************************************************)
MaxBatch == 2
MaxRequests == 2
MaxClock == 1
Procs == 1..MaxRequests

Null == <<"null">>

QAbcd == <<"a", "b", "c", "d">>
QAbcdUpper == <<"A", "B", "c", "d">>
QAbce == <<"a", "b", "c", "e">>
QXy == <<"x", "y">>
QBars == <<"|", "|", "A", "B", "C", "D", "|", "|">>
QBar == <<"|", "|", "a", "b", "c", "d">>
QBlank == <<" ">>

LexQuestions == {QAbcd, QAbcdUpper}
SemQuestions == {QAbcd, QBars, QBar, QXy}

StringEntry(s) == [isString |-> TRUE, text |-> s]
NonStringEntry == [isString |-> FALSE, text |-> <<>>]

Entries(Q) == {StringEntry(s) : s \in Q \cup {QBlank}} \cup {NonStringEntry}

SeqsUpTo(S, n) == UNION {[1..k -> S] : k \in 0..n}

ArrayBody(items) == [isArray |-> TRUE, items |-> items]
NotArrayBody == [isArray |-> FALSE, items |-> <<>>]

\* the batch of the self-referential-growth example, and an over-long batch
GrowthBatch == <<StringEntry(QAbcd), StringEntry(QAbcdUpper), StringEntry(QAbce)>>
OverlongBatch == [k \in 1..(MAX_QUESTIONS + 1) |-> StringEntry(QAbcd)]

LexBodies == {ArrayBody(b) : b \in SeqsUpTo(Entries(LexQuestions), MaxBatch)
                                     \cup {GrowthBatch, OverlongBatch}}
                \cup {NotArrayBody}

SemBodies == {ArrayBody(b) : b \in SeqsUpTo(Entries(SemQuestions), MaxBatch)
                                     \cup {OverlongBatch}}
                \cup {NotArrayBody}

(***************************************************************************)
(* State                                                                   *)
(***************************************************************************)
VARIABLES
  variant,          \* which program runs: "service", "lexical" or "semantic"
  file,             \* QUESTIONS_FILE: the persisted corpus
  now,              \* Date.now()
  proc,             \* the in-flight requests
  similarityCache,  \* cache key -> verdict
  limiter,          \* Bottleneck: jobs running and reservoir left
  allJudgeFailed,   \* history: no judge response was parsed into a verdict
  probe             \* one judge response taken through the job on its own

vars == <<variant, file, now, proc, similarityCache, limiter, allJudgeFailed,
          probe>>

semVars == <<similarityCache, limiter, allJudgeFailed>>

\* no response is being looked at
NoProbe == [stage |-> "none"]

NoResponse == [status |-> 0, results |-> <<>>, error |-> ""]
Ok(results) == [status |-> 200, results |-> results, error |-> ""]
Err(status, msg) == [status |-> status, results |-> <<>>, error |-> msg]

InitialMostSimilar == [similarity |-> Zero, question |-> <<>>]

SemInitialMostSimilar ==
  [similarity |-> Zero, question |-> <<>>, explanation |-> <<>>, analysis |-> ""]

IdleProc ==
  [pc |-> "idle", serial |-> 0,
   questions |-> <<>>, validQuestions |-> <<>>, existingQuestions |-> <<>>,
   rowData |-> <<>>, results |-> <<>>, newQuestions |-> <<>>,
   response |-> NoResponse,
   \* the decision in progress (semantic service)
   pos |-> 0, phase |-> "existing", cidx |-> 0,
   mostSimilar |-> SemInitialMostSimilar, retryCount |-> 0, delayMs |-> 0,
   \* processExcelFile: the sheet, its questions and rows, the chunk in work
   upload |-> FALSE, data |-> <<>>, sheetQuestions |-> <<>>, sheetRows |-> <<>>,
   chunk |-> 0, batchResults |-> <<>>, cleaned |-> <<>>,
   \* history
   storedBefore |-> <<>>, sequential |-> FALSE,
   readFailed |-> FALSE, writeFailed |-> FALSE, undisturbed |-> TRUE]

\* questions.filter((q) => typeof q === 'string' && q.trim().length > 0)
RECURSIVE FilterValid(_)
FilterValid(items) ==
  IF items = <<>> THEN <<>>
  ELSE LET e == Head(items)
       IN IF e.isString /\ NonBlank(e.text)
          THEN <<e.text>> \o FilterValid(Tail(items))
          ELSE FilterValid(Tail(items))

\* .slice(0, n)
SliceTo(s, n) == IF Len(s) <= n THEN s ELSE SubSeq(s, 1, n)

Threshold == IF variant = "service" THEN CONFIG_SIMILARITY_THRESHOLD
             ELSE SIMILARITY_THRESHOLD

\* compareTwoStrings(a.toLowerCase(), b.toLowerCase()) for every pair of
\* texts of the universe, computed once
AllTexts == LexQuestions \cup SemQuestions \cup {QAbce}

QuickScores ==
  [pair \in AllTexts \X AllTexts |->
     compareTwoStrings(toLowerCase(pair[1]), toLowerCase(pair[2]))]

\* a quick score that compares the first text with itself
QuickSimilarityFirstTwice(a, b) == QuickScores[<<a, a>>]

\* the quick score of two texts
QuickSimilarity(a, b) == QuickScores[<<a, b>>]

(***************************************************************************)
(* Lexical processQuestions: the decision loop                             *)
(***************************************************************************)
\* one candidate loop with its break: cands[k..], the running mostSimilar
RECURSIVE LexScan(_, _, _, _)
LexScan(currentQuestion, cands, k, mostSimilar) ==
  IF k > Len(cands) THEN [isDuplicate |-> FALSE, mostSimilar |-> mostSimilar]
  ELSE LET similarity == QuickSimilarity(currentQuestion, cands[k].text)
           ms == IF GT(similarity, mostSimilar.similarity)
                 THEN [similarity |-> similarity, question |-> cands[k].text]
                 ELSE mostSimilar
       IN IF GT(similarity, Threshold)
          THEN [isDuplicate |-> TRUE, mostSimilar |-> ms]
          ELSE LexScan(currentQuestion, cands, k + 1, ms)

\* a decision that forgets the questions accepted earlier in the batch
LexDecideCorpusOnly(currentQuestion, existingQuestions, newQuestions) ==
  LexScan(currentQuestion, existingQuestions, 1, InitialMostSimilar)

\* a decision that looks only at the questions accepted earlier in the batch
LexDecideBatchOnly(currentQuestion, existingQuestions, newQuestions) ==
  LexScan(currentQuestion, newQuestions, 1, InitialMostSimilar)

\* the decision for one question against the corpus, then the batch
LexDecide(currentQuestion, existingQuestions, newQuestions) ==
  LET first == LexScan(currentQuestion, existingQuestions, 1, InitialMostSimilar)
  IN IF first.isDuplicate THEN first
     ELSE LexScan(currentQuestion, newQuestions, 1, first.mostSimilar)

EmptyRow == <<>>

\* rowData[i] || {}
RowOf(rowData, i) == IF i <= Len(rowData) THEN rowData[i] ELSE EmptyRow

LexResult(currentQuestion, d, row) ==
  [question |-> currentQuestion,
   isDuplicate |-> d.isDuplicate,
   mostSimilarQuestion |-> IF GT(d.mostSimilar.similarity, REPORTING_FLOOR)
                           THEN d.mostSimilar.question ELSE Null,
   similarityScore |-> d.mostSimilar.similarity,
   rowData |-> row]

LexRecord(currentQuestion, i) ==
  [id |-> <<"question", now, i - 1>>, text |-> currentQuestion]

\* the for loop over validQuestions from index i
RECURSIVE LexLoop(_, _, _, _, _, _)
LexLoop(validQuestions, rowData, existingQuestions, i, results, newQuestions) ==
  IF i > Len(validQuestions)
  THEN [results |-> results, newQuestions |-> newQuestions]
  ELSE LET currentQuestion == validQuestions[i]
           d == LexDecide(currentQuestion, existingQuestions, newQuestions)
       IN LexLoop(validQuestions, rowData, existingQuestions, i + 1,
                  Append(results,
                         LexResult(currentQuestion, d, RowOf(rowData, i))),
                  IF d.isDuplicate THEN newQuestions
                  ELSE Append(newQuestions, LexRecord(currentQuestion, i)))

(***************************************************************************)
(* Persistence                                                             *)
(***************************************************************************)
\* getStoredQuestions / readQuestions: a failed read yields the empty corpus
ReadQuestions(ok) == IF ok THEN file ELSE <<>>

\* saveQuestions swallows a write error; writeQuestions rethrows it
WriteThrows == variant = "service"

(***************************************************************************)
(* Requests                                                                *)
(***************************************************************************)
\* the handler answers: the results (or the error) go to the caller
Finish(q, response) ==
  [q EXCEPT !.pc = "done", !.response = response, !.storedBefore = <<>>]

\* the requests arrive in the order of their numbers
Arrives(p) ==
  /\ proc[p].pc = "idle"
  /\ \A q \in DOMAIN proc : q < p => proc[q].pc # "idle"

\* what is kept of an answered request once the next one arrives: its
\* questions, the verdicts it reported and its history
Released(r) ==
  IF r.pc # "done" THEN r
  ELSE [IdleProc EXCEPT
          !.pc = "done", !.serial = r.serial,
          !.validQuestions = r.validQuestions,
          !.response = [r.response EXCEPT
                          !.results = [k \in 1..Len(@) |->
                                         [question |-> @[k].question,
                                          isDuplicate |-> @[k].isDuplicate]]],
          !.sequential = r.sequential, !.readFailed = r.readFailed,
          !.writeFailed = r.writeFailed, !.undisturbed = r.undisturbed]

\* a request as it enters its handler
Fresh(p) ==
  [IdleProc EXCEPT !.serial = p,
                   !.storedBefore = file,
                   !.sequential = \A q \in DOMAIN proc : q < p => proc[q].pc = "done"]

\* POST /check-batch up to the first await of processQuestions
LexValidate(body) ==
  IF variant = "lexical" /\ ~body.isArray
  THEN Err(400, "Questions array is required")
  ELSE IF ~body.isArray
  THEN Err(400, "Input must be an array of questions")
  ELSE IF variant = "service" /\ Len(body.items) > MAX_QUESTIONS
  THEN Err(400, "Maximum questions allowed per request")
  ELSE IF FilterValid(body.items) = <<>>
  THEN Err(400, "No valid questions provided")
  ELSE NoResponse

LexValid(body) ==
  IF variant = "service" THEN SliceTo(FilterValid(body.items), MAX_QUESTIONS)
  ELSE FilterValid(body.items)

LexCheckBatch(p, body) ==
  /\ Arrives(p)
  /\ LET v == LexValidate(body)
     IN proc' = [q \in DOMAIN proc |->
                   IF q # p THEN Released(proc[q])
                   ELSE IF v # NoResponse
                   THEN Finish(Fresh(p), v)
                   ELSE [Fresh(p) EXCEPT !.pc = "reading",
                                         !.validQuestions = LexValid(body)]]
  /\ UNCHANGED <<variant, probe, file, now, semVars>>

\* the read completes; the whole decision loop runs without suspending
LexReadDone(p, ok) ==
  /\ proc[p].pc = "reading"
  /\ LET existingQuestions == ReadQuestions(ok)
         out == LexLoop(proc[p].validQuestions, proc[p].rowData,
                        existingQuestions, 1, <<>>, <<>>)
         q == [proc[p] EXCEPT !.existingQuestions = existingQuestions,
                              !.results = out.results,
                              !.newQuestions = out.newQuestions,
                              !.readFailed = ~ok]
     IN proc' = [proc EXCEPT ![p] =
                   IF Len(out.newQuestions) > 0
                   THEN [q EXCEPT !.pc = "writing"]
                   ELSE Finish(q, Ok(out.results))]
  /\ UNCHANGED <<variant, probe, file, now, semVars>>

\* the write of [...existingQuestions, ...newQuestions] completes or fails
LexWriteDone(p, ok) ==
  /\ proc[p].pc = "writing"
  /\ file' = IF ok THEN proc[p].existingQuestions \o proc[p].newQuestions
             ELSE file
  /\ LET q == [proc[p] EXCEPT !.writeFailed = ~ok]
         response == IF ~ok /\ WriteThrows THEN Err(400, "write failed")
                     ELSE Ok(q.results)
     IN proc' = [proc EXCEPT ![p] = Finish(q, response)]
  /\ UNCHANGED <<variant, probe, now, semVars>>

\* POST /reset-questions (server.js): the file is emptied, then the cache
ResetQuestions ==
  /\ variant \in {"lexical", "semantic"}
  /\ file' = <<>>
  /\ similarityCache' = <<>>
  /\ proc' = [p \in DOMAIN proc |->
                IF proc[p].pc = "idle" THEN proc[p]
                ELSE [proc[p] EXCEPT !.undisturbed = FALSE]]
  /\ UNCHANGED <<variant, probe, now, limiter, allJudgeFailed>>

Tick ==
  /\ now < MaxClock
  /\ now' = now + 1
  /\ UNCHANGED <<variant, probe, file, proc, semVars>>

InitCommon ==
  /\ file = <<>>
  /\ now = 0
  /\ proc = [p \in Procs |-> IdleProc]
  /\ similarityCache = <<>>
  /\ limiter = [running |-> 0, reservoir |-> 15]
  /\ allJudgeFailed = TRUE
  /\ probe = NoProbe

InitLex ==
  /\ variant \in {"service", "lexical"}
  /\ InitCommon

NextLex ==
  \/ \E p \in Procs : Arrives(p) /\ \E body \in LexBodies : LexCheckBatch(p, body)
  \/ \E p \in Procs, ok \in BOOLEAN : LexReadDone(p, ok)
  \/ \E p \in Procs, ok \in BOOLEAN : LexWriteDone(p, ok)
  \/ ResetQuestions
  \/ Tick

SpecLex == InitLex /\ [][NextLex]_vars

\* requests for questions that are not duplicates of each other
DistinctBodies ==
  {ArrayBody(b) : b \in {<<StringEntry(QAbcd)>>, <<StringEntry(QAbce)>>,
                         <<StringEntry(QXy)>>,
                         <<StringEntry(QAbcd), StringEntry(QAbce)>>}}

NextLexDistinct ==
  \/ \E p \in Procs : Arrives(p) /\ \E body \in DistinctBodies : LexCheckBatch(p, body)
  \/ \E p \in Procs, ok \in BOOLEAN : LexReadDone(p, ok)
  \/ \E p \in Procs, ok \in BOOLEAN : LexWriteDone(p, ok)
  \/ ResetQuestions
  \/ Tick

SpecLexDistinct == InitLex /\ [][NextLexDistinct]_vars

(***************************************************************************)
(* The semantic service: similarity cache, judge and limiter               *)
(***************************************************************************)
GEMINI_REQUESTS_PER_MINUTE == 15
GEMINI_BATCH_SIZE == 5
MAX_CONCURRENT == 2
MAX_RETRIES == 1
\* const delayMs = 10 * 1000
RETRY_DELAY_MS == 10 * 1000

\* `${question1}||${question2}`.toLowerCase()
CacheKey(question1, question2) ==
  toLowerCase(question1 \o <<"|", "|">> \o question2)

CacheHas(cache, key) == key \in DOMAIN cache

\* similarityCache.set(cacheKey, result)
CacheSet(cache, key, result) ==
  [k \in (DOMAIN cache) \cup {key} |-> IF k = key THEN result ELSE cache[k]]

LowVerdict(quickSimilarity) ==
  [similarityScore |-> quickSimilarity,
   isSameQuestion |-> FALSE,
   reasons |-> <<"Low lexical similarity">>,
   analysis |-> "Questions are lexically distinct based on quick comparison"]

FallbackVerdict(quickSimilarity) ==
  [similarityScore |-> quickSimilarity,
   isSameQuestion |-> GT(quickSimilarity, SIMILARITY_THRESHOLD),
   reasons |-> <<"Fallback to string similarity due to API error">>,
   analysis |-> "Gemini analysis failed - used basic string comparison"]

\* analysis.x || default, field by field
ParsedVerdict(analysis) ==
  [similarityScore |-> IF "similarityScore" \in DOMAIN analysis.num
                       THEN analysis.num["similarityScore"] ELSE Zero,
   isSameQuestion |-> IF "isSameQuestion" \in DOMAIN analysis.bool
                      THEN analysis.bool["isSameQuestion"] ELSE FALSE,
   reasons |-> IF "reasons" \in analysis.keys
               THEN <<"reasons of the judge">> ELSE <<>>,
   analysis |-> IF "analysis" \in analysis.keys
                THEN "analysis of the judge"
                ELSE "No detailed analysis provided"]

\* what the judge can answer
WellFormedText ==
  <<"{", Quote, "similarityScore", Quote, ":", " ", "0.92", ",",
    Quote, "isSameQuestion", Quote, ":", " ", "true", "}">>
EmptyObjectText == <<"{", "}">>
ProseText == <<"sorry">>
BrokenText == <<"{", "oops", "}">>

TextOutcome(text) == [kind |-> "text", text |-> text, status |-> 0]
ErrorOutcome(status) == [kind |-> "error", text |-> <<>>, status |-> status]

JudgeOutcomes ==
  {TextOutcome(t) : t \in {WellFormedText, EmptyObjectText, ProseText, BrokenText}}
    \cup {ErrorOutcome(429), ErrorOutcome(500)}

Thrown(status) == [threw |-> TRUE, status |-> status,
                   verdict |-> LowVerdict(Zero)]
Returned(verdict) == [threw |-> FALSE, status |-> 0, verdict |-> verdict]

\* the job given to limiter.schedule, from the answer of generateContent on
JudgeJob(outcome) ==
  IF outcome.kind = "error" THEN Thrown(outcome.status)
  ELSE LET text == outcome.text
           jsonStart == IndexOf(text, "{")
           jsonEnd == LastIndexOf(text, "}")
       IN IF jsonStart = 0 \/ jsonEnd = 0 THEN Thrown(0)
          ELSE LET analysis ==
                     JsonParse(sanitizeJsonString(Slice(text, jsonStart, jsonEnd)))
               IN IF analysis.ok THEN Returned(ParsedVerdict(analysis))
                  ELSE Thrown(0)

\* JudgeJob for every answer of the judge, computed once
JudgeJobs == [outcome \in JudgeOutcomes |-> JudgeJob(outcome)]

\* a catch block that lets every error but the rate limit escape
CatchRethrowing(job, retryCount, quickSimilarity) ==
  IF job.status = 429 /\ retryCount < MAX_RETRIES THEN [do |-> "retry"]
  ELSE IF job.status = 429
       THEN [do |-> "return", verdict |-> FallbackVerdict(quickSimilarity)]
       ELSE [do |-> "throw"]

\* a catch block that retries a rate-limit error without counting
CatchRetryAlways(job, retryCount, quickSimilarity) ==
  IF job.status = 429 THEN [do |-> "retry"]
  ELSE [do |-> "return", verdict |-> FallbackVerdict(quickSimilarity)]

\* the catch block of checkSimilarity
Catch(job, retryCount, quickSimilarity) ==
  IF job.status = 429 /\ retryCount < MAX_RETRIES THEN [do |-> "retry"]
  ELSE [do |-> "return", verdict |-> FallbackVerdict(quickSimilarity)]

(***************************************************************************)
(* Semantic processQuestions: the decision loop between two suspensions    *)
(***************************************************************************)
\* the texts of the corpus records at or above the pre-filter, in corpus order
RECURSIVE Prefilter(_, _, _)
Prefilter(q, existingQuestions, k) ==
  IF k > Len(existingQuestions) THEN <<>>
  ELSE IF GE(QuickSimilarity(q, existingQuestions[k].text), PREFILTER_THRESHOLD)
       THEN <<existingQuestions[k].text>> \o Prefilter(q, existingQuestions, k + 1)
       ELSE Prefilter(q, existingQuestions, k + 1)

\* prefilteredExisting[pos]
Candidates(l) == Prefilter(l.validQuestions[l.pos], l.existingQuestions, 1)

\* the sub-batch the loops are in: i of the outer loop, j of the inner one
BatchStart(l) == ((l.pos - 1) \div GEMINI_BATCH_SIZE) * GEMINI_BATCH_SIZE
BatchIndex(l) == (l.pos - 1) % GEMINI_BATCH_SIZE

\* a slice that always starts at the head of the array
BatchSliceFromHead(s, i) ==
  IF Len(s) <= GEMINI_BATCH_SIZE THEN s ELSE SubSeq(s, 1, GEMINI_BATCH_SIZE)

\* s.slice(i, i + GEMINI_BATCH_SIZE)
BatchSlice(s, i) ==
  IF i >= Len(s) THEN <<>>
  ELSE IF i + GEMINI_BATCH_SIZE >= Len(s) THEN SubSeq(s, i + 1, Len(s))
  ELSE SubSeq(s, i + 1, i + GEMINI_BATCH_SIZE)

\* batchQuestions[j]
CurrentQuestion(l) ==
  BatchSlice(l.validQuestions, BatchStart(l))[BatchIndex(l) + 1]

\* an in-batch candidate list that already holds the question being decided
InBatchWithCurrent(l) ==
  Append(l.newQuestions, [id |-> <<"uuid", l.serial, l.chunk + l.pos>>,
                          text |-> CurrentQuestion(l),
                          createdAt |-> now,
                          isUnique |-> TRUE])

\* for (const newQ of newQuestions): the questions accepted so far
InBatch(l) == l.newQuestions

\* the candidate the decision is at
CurrentCandidate(l) ==
  IF l.phase = "existing" THEN Candidates(l)[l.cidx]
  ELSE InBatch(l)[l.cidx].text

\* batchRowData[j] || {}
SemRow(l) == RowOf(BatchSlice(l.rowData, BatchStart(l)), BatchIndex(l) + 1)

\* a loop that stores every question, the duplicates too
ConcludeStoreAll(l, isDuplicate) ==
  [l EXCEPT
     !.results = Append(@,
        [question |-> CurrentQuestion(l),
         isDuplicate |-> isDuplicate,
         mostSimilarQuestion |-> IF GT(l.mostSimilar.similarity, REPORTING_FLOOR)
                                 THEN l.mostSimilar.question ELSE Null,
         similarityScore |-> l.mostSimilar.similarity,
         similarityExplanation |-> l.mostSimilar.explanation,
         semanticAnalysis |-> l.mostSimilar.analysis,
         rowData |-> SemRow(l)]),
     !.newQuestions = Append(@, [id |-> <<"uuid", l.serial, l.chunk + l.pos>>,
                                 text |-> CurrentQuestion(l),
                                 createdAt |-> now,
                                 isUnique |-> TRUE]),
     !.pos = @ + 1, !.phase = "existing", !.cidx = 1,
     !.mostSimilar = SemInitialMostSimilar]

\* results.push and newQuestions.push, then the next question
Conclude(l, isDuplicate) ==
  [l EXCEPT
     !.results = Append(@,
        [question |-> CurrentQuestion(l),
         isDuplicate |-> isDuplicate,
         mostSimilarQuestion |-> IF GT(l.mostSimilar.similarity, REPORTING_FLOOR)
                                 THEN l.mostSimilar.question ELSE Null,
         similarityScore |-> l.mostSimilar.similarity,
         similarityExplanation |-> l.mostSimilar.explanation,
         semanticAnalysis |-> l.mostSimilar.analysis,
         rowData |-> SemRow(l)]),
     !.newQuestions = IF isDuplicate THEN @
                      ELSE Append(@, [id |-> <<"uuid", l.serial, l.chunk + l.pos>>,
                                      text |-> CurrentQuestion(l),
                                      createdAt |-> now,
                                      isUnique |-> TRUE]),
     !.pos = @ + 1, !.phase = "existing", !.cidx = 1,
     !.mostSimilar = SemInitialMostSimilar]

\* the best so far also gives way to a candidate of the same score
MostSimilarLast(l, v) ==
  IF GE(v.similarityScore, l.mostSimilar.similarity)
  THEN [similarity |-> v.similarityScore,
        question |-> CurrentCandidate(l),
        explanation |-> v.reasons,
        analysis |-> v.analysis]
  ELSE l.mostSimilar

\* if (similarityScore > mostSimilar.similarity) mostSimilar = {...}
MostSimilar(l, v) ==
  IF GT(v.similarityScore, l.mostSimilar.similarity)
  THEN [similarity |-> v.similarityScore,
        question |-> CurrentCandidate(l),
        explanation |-> v.reasons,
        analysis |-> v.analysis]
  ELSE l.mostSimilar

\* a loop without the break: the next candidate, whatever the verdict
ApplyVerdictNoBreak(l, v) ==
  [l EXCEPT !.mostSimilar = MostSimilar(l, v), !.cidx = @ + 1]

\* the verdict of the current candidate is in: track the best, break or go on
ApplyVerdict(l, v) ==
  LET m == [l EXCEPT !.mostSimilar = MostSimilar(l, v)]
  IN IF v.isSameQuestion \/ GT(v.similarityScore, SIMILARITY_THRESHOLD)
     THEN Conclude(m, TRUE)
     ELSE [m EXCEPT !.cidx = @ + 1]

\* run from the state l with the cache c until checkSimilarity has to wait
\* for the judge, or the loop over the batch is over
RECURSIVE Run(_, _)
Run(l, c) ==
  IF l.pos > Len(l.validQuestions)
  THEN [l |-> [l EXCEPT !.pc = IF Len(l.newQuestions) > 0 THEN "writing"
                               ELSE "returning"],
        c |-> c]
  ELSE IF l.phase = "existing" /\ l.cidx > Len(Candidates(l))
  THEN Run([l EXCEPT !.phase = "new", !.cidx = 1], c)
  ELSE IF l.phase = "new" /\ l.cidx > Len(InBatch(l))
  THEN Run(Conclude(l, FALSE), c)
  ELSE IF l.phase = "new"
          /\ (~InBatch(l)[l.cidx].isUnique
              \/ LT(QuickSimilarity(CurrentQuestion(l), CurrentCandidate(l)),
                    PREFILTER_THRESHOLD))
  THEN Run([l EXCEPT !.cidx = @ + 1], c)
  ELSE \* checkSimilarity(currentQuestion, candidate) up to its first await
       LET question1 == CurrentQuestion(l)
           question2 == CurrentCandidate(l)
           cacheKey == CacheKey(question1, question2)
           quickSimilarity == QuickSimilarity(question1, question2)
       IN IF CacheHas(c, cacheKey)
          THEN Run(ApplyVerdict(l, c[cacheKey]), c)
          ELSE IF LT(quickSimilarity, PREFILTER_THRESHOLD)
          THEN Run(ApplyVerdict(l, LowVerdict(quickSimilarity)),
                   CacheSet(c, cacheKey, LowVerdict(quickSimilarity)))
          ELSE [l |-> [l EXCEPT !.pc = "queued", !.retryCount = 0],
                c |-> c]

\* questions.slice(i, i + MAX_QUESTIONS_PER_BATCH)
ChunkSlice(s, i) ==
  IF i >= Len(s) THEN <<>>
  ELSE IF i + MAX_QUESTIONS_PER_BATCH >= Len(s) THEN SubSeq(s, i + 1, Len(s))
  ELSE SubSeq(s, i + 1, i + MAX_QUESTIONS_PER_BATCH)

\* processQuestions(questions, rowData) entered from processExcelFile
EnterCall(l, questions, rowData) ==
  LET items == [k \in 1..Len(questions) |-> StringEntry(questions[k])]
  IN [l EXCEPT !.pc = "reading", !.questions = items,
               !.validQuestions = FilterValid(items), !.rowData = rowData,
               !.existingQuestions = <<>>, !.results = <<>>,
               !.newQuestions = <<>>]

\* data[results.indexOf(result) + 1] of every result that is not a duplicate
RECURSIVE UniqueRows(_, _, _)
UniqueRows(data, results, k) ==
  IF k > Len(results) THEN <<>>
  ELSE (IF results[k].isDuplicate THEN <<>> ELSE <<data[k + 1]>>)
         \o UniqueRows(data, results, k + 1)

\* processQuestions returns its results: to the route, or to processExcelFile,
\* which calls it on the next chunk or writes the cleaned sheet and returns
Return(l) ==
  IF ~l.upload THEN Finish(l, Ok(l.results))
  ELSE LET batchResults == l.batchResults \o l.results
           i == l.chunk + MAX_QUESTIONS_PER_BATCH
       IN IF Len(l.sheetQuestions) > MAX_QUESTIONS_PER_BATCH
             /\ i < Len(l.sheetQuestions)
          THEN EnterCall([l EXCEPT !.chunk = i, !.batchResults = batchResults],
                         ChunkSlice(l.sheetQuestions, i),
                         ChunkSlice(l.sheetRows, i))
          ELSE Finish([l EXCEPT !.batchResults = batchResults,
                                !.cleaned = <<l.data[1]>>
                                              \o UniqueRows(l.data, batchResults, 1)],
                      Ok(batchResults))

\* the effect of a stretch of the loop on the request p
Continue(p, l, c) ==
  LET r == Run(l, c)
  IN /\ similarityCache' = r.c
     /\ proc' = [proc EXCEPT ![p] = IF r.l.pc = "returning"
                                    THEN Return(r.l)
                                    ELSE r.l]

\* POST /check-batch up to the first await of processQuestions
SemValidate(body) ==
  IF ~body.isArray
  THEN Err(400, "Questions array is required")
  ELSE IF Len(body.items) > MAX_QUESTIONS_PER_BATCH
  THEN Err(400, "Maximum questions per batch allowed")
  ELSE IF FilterValid(body.items) = <<>>
  THEN Err(400, "No valid questions provided")
  ELSE NoResponse

SemCheckBatch(p, body) ==
  /\ Arrives(p)
  /\ LET v == SemValidate(body)
     IN proc' = [q \in DOMAIN proc |->
                   IF q # p THEN Released(proc[q])
                   ELSE IF v # NoResponse
                   THEN Finish(Fresh(p), v)
                   ELSE [Fresh(p) EXCEPT !.pc = "reading",
                                         !.validQuestions = FilterValid(body.items)]]
  /\ UNCHANGED <<variant, probe, file, now, semVars>>

\* getStoredQuestions completes; the pre-filter and the loop start
SemReadDone(p, ok) ==
  /\ proc[p].pc = "reading"
  /\ Continue(p, [proc[p] EXCEPT !.existingQuestions = ReadQuestions(ok),
                                 !.readFailed = ~ok,
                                 !.pos = 1, !.phase = "existing", !.cidx = 1],
              similarityCache)
  /\ UNCHANGED <<variant, probe, file, now, limiter, allJudgeFailed>>

\* a limiter that starts a job whenever the reservoir has a unit left
LimiterStartAnyNumber(p) ==
  /\ proc[p].pc = "queued"
  /\ limiter.reservoir > 0
  /\ limiter' = [running |-> limiter.running + 1,
                 reservoir |-> limiter.reservoir - 1]
  /\ proc' = [proc EXCEPT ![p].pc = "judging"]
  /\ UNCHANGED <<variant, probe, file, now, similarityCache, allJudgeFailed>>

\* Bottleneck starts the queued job: a free slot and a unit of the reservoir
LimiterStart(p) ==
  /\ proc[p].pc = "queued"
  /\ limiter.running < MAX_CONCURRENT
  /\ limiter.reservoir > 0
  /\ limiter' = [running |-> limiter.running + 1,
                 reservoir |-> limiter.reservoir - 1]
  /\ proc' = [proc EXCEPT ![p].pc = "judging"]
  /\ UNCHANGED <<variant, probe, file, now, similarityCache, allJudgeFailed>>

\* a refresh that puts nothing into the reservoir
LimiterRefreshNothing ==
  /\ limiter.reservoir < GEMINI_REQUESTS_PER_MINUTE
  /\ limiter' = [limiter EXCEPT !.reservoir = @]
  /\ UNCHANGED <<variant, probe, file, now, proc, similarityCache, allJudgeFailed>>

\* reservoirRefreshInterval elapsed
LimiterRefresh ==
  /\ limiter.reservoir < GEMINI_REQUESTS_PER_MINUTE
  /\ limiter' = [limiter EXCEPT !.reservoir = GEMINI_REQUESTS_PER_MINUTE]
  /\ UNCHANGED <<variant, probe, file, now, proc, similarityCache, allJudgeFailed>>

\* generateContent answers or fails; the job, then the catch block, then the
\* loop of processQuestions up to its next suspension
JudgeReturn(p, outcome) ==
  /\ proc[p].pc = "judging"
  /\ limiter' = [limiter EXCEPT !.running = @ - 1]
  /\ LET l == proc[p]
         question1 == CurrentQuestion(l)
         question2 == CurrentCandidate(l)
         cacheKey == CacheKey(question1, question2)
         quickSimilarity == QuickSimilarity(question1, question2)
         job == JudgeJobs[outcome]
         handled == IF job.threw THEN Catch(job, l.retryCount, quickSimilarity)
                    ELSE [do |-> "return", verdict |-> job.verdict]
     IN /\ allJudgeFailed' = (allJudgeFailed /\ job.threw)
        /\ CASE handled.do = "retry" ->
                  /\ proc' = [proc EXCEPT ![p].pc = "backoff",
                                           ![p].delayMs = RETRY_DELAY_MS]
                  /\ UNCHANGED similarityCache
             [] handled.do = "throw" ->
                  /\ proc' = [proc EXCEPT ![p] = Finish(l, Err(400, "Gemini API error"))]
                  /\ UNCHANGED similarityCache
             [] OTHER ->
                  Continue(p, ApplyVerdict(l, handled.verdict),
                           CacheSet(similarityCache, cacheKey, handled.verdict))
  /\ UNCHANGED <<variant, probe, file, now>>

\* the delay is over: checkSimilarity(question1, question2, retryCount + 1)
BackoffDone(p) ==
  /\ proc[p].pc = "backoff"
  /\ LET l == [proc[p] EXCEPT !.delayMs = 0]
         cacheKey == CacheKey(CurrentQuestion(l), CurrentCandidate(l))
     IN IF CacheHas(similarityCache, cacheKey)
        THEN Continue(p, ApplyVerdict(l, similarityCache[cacheKey]),
                      similarityCache)
        ELSE /\ proc' = [proc EXCEPT ![p] = [l EXCEPT !.pc = "queued",
                                                      !.retryCount = @ + 1]]
             /\ UNCHANGED similarityCache
  /\ UNCHANGED <<variant, probe, file, now, limiter, allJudgeFailed>>

\* saveQuestions([...existingQuestions, ...newQuestions]) completes or fails
SemWriteDone(p, ok) ==
  /\ proc[p].pc = "writing"
  /\ file' = IF ok THEN proc[p].existingQuestions \o proc[p].newQuestions
             ELSE file
  /\ LET q == [proc[p] EXCEPT !.writeFailed = ~ok]
     IN proc' = [proc EXCEPT ![p] = Return(q)]
  /\ UNCHANGED <<variant, probe, now, semVars>>

InitSem ==
  /\ variant = "semantic"
  /\ InitCommon

\* no request is being handled
Quiet == \A q \in DOMAIN proc : proc[q].pc \in {"idle", "done"}

\* the requests come one after the other
NextSem ==
  \/ Quiet /\ \E p \in Procs : Arrives(p) /\ \E body \in SemBodies : SemCheckBatch(p, body)
  \/ \E p \in Procs, ok \in BOOLEAN : SemReadDone(p, ok)
  \/ \E p \in Procs : LimiterStart(p)
  \/ \E p \in Procs, outcome \in JudgeOutcomes : JudgeReturn(p, outcome)
  \/ \E p \in Procs : BackoffDone(p)
  \/ \E p \in Procs, ok \in BOOLEAN : SemWriteDone(p, ok)

SpecSem == InitSem /\ [][NextSem]_vars

\* two requests of one question each, which may overlap
PairBodies == {ArrayBody(<<StringEntry(s)>>) : s \in SemQuestions}

NextSemPair ==
  \/ \E p \in Procs : Arrives(p) /\ \E body \in PairBodies : SemCheckBatch(p, body)
  \/ \E p \in Procs, ok \in BOOLEAN : SemReadDone(p, ok)
  \/ \E p \in Procs : LimiterStart(p)
  \/ LimiterRefresh
  \/ \E p \in Procs, outcome \in JudgeOutcomes : JudgeReturn(p, outcome)
  \/ \E p \in Procs : BackoffDone(p)
  \/ \E p \in Procs, ok \in BOOLEAN : SemWriteDone(p, ok)
  \/ ResetQuestions

SpecSemPair == InitSem /\ [][NextSemPair]_vars

\* a record written to QUESTIONS_FILE by an earlier run of the server
StoredRecord(text) ==
  [id |-> <<"uuid", 0, 1>>, text |-> text, createdAt |-> 0, isUnique |-> TRUE]

\* the server starts on a questions file that holds one record
InitSemStored ==
  /\ variant = "semantic"
  /\ file = <<StoredRecord(QAbcd)>>
  /\ now = 0
  /\ proc = [p \in Procs |-> IdleProc]
  /\ similarityCache = <<>>
  /\ limiter = [running |-> 0, reservoir |-> GEMINI_REQUESTS_PER_MINUTE]
  /\ allJudgeFailed = TRUE
  /\ probe = NoProbe

\* requests for a question close to the stored one
StoredBodies == {ArrayBody(<<StringEntry(s)>>) : s \in {QAbcd, QBar}}

\* two requests of one question each, which may overlap, on a stored corpus
NextSemStored ==
  \/ \E p \in Procs : Arrives(p) /\ \E body \in StoredBodies : SemCheckBatch(p, body)
  \/ \E p \in Procs, ok \in BOOLEAN : SemReadDone(p, ok)
  \/ \E p \in Procs : LimiterStart(p)
  \/ LimiterRefresh
  \/ \E p \in Procs, outcome \in JudgeOutcomes : JudgeReturn(p, outcome)
  \/ \E p \in Procs : BackoffDone(p)
  \/ \E p \in Procs, ok \in BOOLEAN : SemWriteDone(p, ok)
  \/ ResetQuestions

SpecSemStored == InitSemStored /\ [][NextSemStored]_vars

\* the server starts on a questions file with two records whose texts differ
\* in case only (both accepted by an earlier run)
InitTie ==
  /\ variant = "semantic"
  /\ file = <<StoredRecord(QAbcd),
              [StoredRecord(QAbcdUpper) EXCEPT !.id = <<"uuid", 0, 2>>]>>
  /\ now = 0
  /\ proc = [p \in Procs |-> IdleProc]
  /\ similarityCache = <<>>
  /\ limiter = [running |-> 0, reservoir |-> GEMINI_REQUESTS_PER_MINUTE]
  /\ allJudgeFailed = TRUE
  /\ probe = NoProbe

\* requests for questions close to the stored ones
TieBodies ==
  {ArrayBody(b) : b \in {<<StringEntry(QBar)>>, <<StringEntry(QAbcd)>>,
                         <<StringEntry(QBar), StringEntry(QBars)>>}}

\* the requests come one after the other
NextTie ==
  \/ Quiet /\ \E p \in Procs : Arrives(p) /\ \E body \in TieBodies : SemCheckBatch(p, body)
  \/ \E p \in Procs, ok \in BOOLEAN : SemReadDone(p, ok)
  \/ \E p \in Procs : LimiterStart(p)
  \/ \E p \in Procs, outcome \in JudgeOutcomes : JudgeReturn(p, outcome)
  \/ \E p \in Procs : BackoffDone(p)
  \/ \E p \in Procs, ok \in BOOLEAN : SemWriteDone(p, ok)

SpecTie == InitTie /\ [][NextTie]_vars

(***************************************************************************)
(* The limiter under more requests than it lets through at once            *)
(***************************************************************************)
GateProcs == 1..(MAX_CONCURRENT + 1)

\* the reservoir at the start: full, or nearly used up by the judge calls of
\* requests answered since the last refresh (and a reset since)
GateReservoirs == {1, MAX_CONCURRENT, GEMINI_REQUESTS_PER_MINUTE}

InitGate ==
  /\ variant = "semantic"
  /\ file = <<StoredRecord(QAbcd)>>
  /\ now = 0
  /\ proc = [p \in GateProcs |-> IdleProc]
  /\ similarityCache = <<>>
  /\ limiter \in [running : {0}, reservoir : GateReservoirs]
  /\ allJudgeFailed = TRUE
  /\ probe = NoProbe

\* the judge answers with an object, or fails with or without a rate-limit status
GateOutcomes ==
  {TextOutcome(EmptyObjectText), ErrorOutcome(429), ErrorOutcome(500)}

\* requests for the stored question, which may all overlap; the file is
\* read and written without failure
NextGate ==
  \/ \E p \in GateProcs :
       Arrives(p) /\ SemCheckBatch(p, ArrayBody(<<StringEntry(QAbcd)>>))
  \/ \E p \in GateProcs : SemReadDone(p, TRUE)
  \/ \E p \in GateProcs : LimiterStart(p)
  \/ LimiterRefresh
  \/ \E p \in GateProcs, outcome \in GateOutcomes : JudgeReturn(p, outcome)
  \/ \E p \in GateProcs : BackoffDone(p)
  \/ \E p \in GateProcs : SemWriteDone(p, TRUE)

SpecGate == InitGate /\ [][NextGate]_vars

\* two requests on a reservoir with one unit left
InitLive ==
  /\ variant = "semantic"
  /\ file = <<StoredRecord(QAbcd)>>
  /\ now = 0
  /\ proc = [p \in Procs |-> IdleProc]
  /\ similarityCache = <<>>
  /\ limiter = [running |-> 0, reservoir |-> 1]
  /\ allJudgeFailed = TRUE
  /\ probe = NoProbe

NextLive ==
  \/ \E p \in Procs :
       Arrives(p) /\ SemCheckBatch(p, ArrayBody(<<StringEntry(QAbcd)>>))
  \/ \E p \in Procs : SemReadDone(p, TRUE)
  \/ \E p \in Procs : LimiterStart(p)
  \/ LimiterRefresh
  \/ \E p \in Procs, outcome \in GateOutcomes : JudgeReturn(p, outcome)
  \/ \E p \in Procs : BackoffDone(p)
  \/ \E p \in Procs : SemWriteDone(p, TRUE)

\* what goes on without a new request: the limiter starts a queued job when
\* it has a slot and a unit, a judge request returns or fails, the backoff
\* timer fires, a read or a write of the file completes
Pending ==
  \/ \E p \in Procs : SemReadDone(p, TRUE)
  \/ \E p \in Procs : LimiterStart(p)
  \/ \E p \in Procs, outcome \in GateOutcomes : JudgeReturn(p, outcome)
  \/ \E p \in Procs : BackoffDone(p)
  \/ \E p \in Procs : SemWriteDone(p, TRUE)

\* some pending step can be taken: ENABLED <<Pending>>_vars, written as the
\* guards of the steps of Pending, each of which changes proc[p].pc
Ready ==
  \E p \in Procs :
    \/ proc[p].pc \in {"reading", "judging", "backoff", "writing"}
    \/ /\ proc[p].pc = "queued"
       /\ limiter.running < MAX_CONCURRENT
       /\ limiter.reservoir > 0

\* the reservoir keeps being refilled, and what is pending does not wait
\* forever: weak fairness of LimiterRefresh and of Pending, the second one
\* with its enabling condition written out as Ready
LiveFairness ==
  /\ WF_vars(LimiterRefresh)
  /\ ([]<>(~Ready) \/ []<><<Pending>>_vars)

SpecLive == InitLive /\ [][NextLive]_vars /\ LiveFairness

\* the server of InitTie under batches that mix stored and new questions
\* requests that mix a stored question with a new one, or repeat a new one
AppendBodies ==
  {ArrayBody(b) : b \in {<<StringEntry(QAbcd)>>,
                         <<StringEntry(QAbcd), StringEntry(QXy)>>,
                         <<StringEntry(QXy), StringEntry(QAbcd)>>,
                         <<StringEntry(QXy), StringEntry(QXy)>>}}

\* the requests come one after the other
NextAppend ==
  \/ Quiet /\ \E p \in Procs : Arrives(p) /\ \E body \in AppendBodies : SemCheckBatch(p, body)
  \/ \E p \in Procs, ok \in BOOLEAN : SemReadDone(p, ok)
  \/ \E p \in Procs : LimiterStart(p)
  \/ \E p \in Procs, outcome \in GateOutcomes : JudgeReturn(p, outcome)
  \/ \E p \in Procs : BackoffDone(p)
  \/ \E p \in Procs, ok \in BOOLEAN : SemWriteDone(p, ok)

SpecAppend == InitTie /\ [][NextAppend]_vars

(***************************************************************************)
(* processQuestions(questions, rowData) called on its own                  *)
(***************************************************************************)
LongBatch == 6

\* the reference object that comes with the k-th entry
Row(k) == <<"row", k>>
RowsFor(items) == [k \in 1..Len(items) |-> Row(k)]

CallEntries == {StringEntry(QXy), StringEntry(QAbcd), StringEntry(QBlank)}

\* short batches of any entries, and batches longer than one sub-batch
CallQuestions ==
  {ArrayBody(b) : b \in SeqsUpTo(CallEntries \cup {NonStringEntry}, 2)
                          \cup [1..LongBatch -> CallEntries]}
    \cup {NotArrayBody}

\* a validation that lets an input without valid entries through
CallValidateArrayOnly(questions) ==
  IF ~questions.isArray THEN Err(500, "Input must be an array of questions")
  ELSE NoResponse

\* processQuestions up to its first await; an error thrown to the caller is
\* written with the status POST /upload answers it with
CallValidate(questions) ==
  IF ~questions.isArray THEN Err(500, "Input must be an array of questions")
  ELSE IF FilterValid(questions.items) = <<>>
  THEN Err(500, "No valid questions provided")
  ELSE NoResponse

SemCall(p, questions, rowData) ==
  /\ Arrives(p)
  /\ LET v == CallValidate(questions)
     IN proc' = [q \in DOMAIN proc |->
                   IF q # p THEN Released(proc[q])
                   ELSE IF v # NoResponse
                   THEN Finish([Fresh(p) EXCEPT !.questions = questions.items,
                                                !.rowData = rowData], v)
                   ELSE [Fresh(p) EXCEPT !.pc = "reading",
                                         !.questions = questions.items,
                                         !.rowData = rowData,
                                         !.validQuestions =
                                            FilterValid(questions.items)]]
  /\ UNCHANGED <<variant, probe, file, now, semVars>>

\* one call, with the reference objects or without them
NextCall ==
  \/ \E questions \in CallQuestions :
       \E rowData \in {<<>>, RowsFor(questions.items)} :
         SemCall(1, questions, rowData)
  \/ \E p \in Procs, ok \in BOOLEAN : SemReadDone(p, ok)
  \/ \E p \in Procs : LimiterStart(p)
  \/ \E p \in Procs, outcome \in JudgeOutcomes : JudgeReturn(p, outcome)
  \/ \E p \in Procs : BackoffDone(p)
  \/ \E p \in Procs, ok \in BOOLEAN : SemWriteDone(p, ok)

SpecCall == InitSem /\ [][NextCall]_vars

(***************************************************************************)
(* POST /upload: processExcelFile on the first sheet of the uploaded file  *)
(***************************************************************************)
MaxSheet == 5

\* s.trim()
RECURSIVE TrimStart(_)
TrimStart(s) ==
  IF s # <<>> /\ IsSpace(Head(s)) THEN TrimStart(Tail(s)) ELSE s
RECURSIVE TrimEnd(_)
TrimEnd(s) ==
  IF s # <<>> /\ IsSpace(s[Len(s)]) THEN TrimEnd(SubSeq(s, 1, Len(s) - 1))
  ELSE s
Trim(s) == TrimEnd(TrimStart(s))

QPadded == <<" ", "x", "y">>

\* a row of the sheet: its number and the cell of the one column
SheetRow(n, cell) == [n |-> n, question |-> cell]

questionColumnNames == {<<"q">>}

\* the sheets: a header row and up to MaxSheet rows under it
Cells == {StringEntry(QXy), StringEntry(QAbcd), StringEntry(QBlank)}
Sheet(header, cells) ==
  <<SheetRow(0, StringEntry(header))>>
    \o [k \in 1..Len(cells) |-> SheetRow(k, cells[k])]
Sheets ==
  {Sheet(<<"q">>, cells) :
     cells \in SeqsUpTo(Cells \cup {NonStringEntry, StringEntry(QPadded)}, 1)
                 \cup [1..(MAX_QUESTIONS_PER_BATCH + 1) -> Cells]
                 \cup [1..MaxSheet -> Cells]}
    \cup {<<>>, Sheet(<<"x", "y">>, <<StringEntry(QXy)>>)}

Uploads == {[hasFile |-> FALSE, data |-> <<>>]}
             \cup {[hasFile |-> TRUE, data |-> d] : d \in Sheets}

\* the loop over data[1..]: questions.push(question.trim()), rowData.push(row)
RECURSIVE SheetQuestions(_, _)
SheetQuestions(data, i) ==
  IF i > Len(data) THEN <<>>
  ELSE LET question == data[i].question
       IN (IF question.isString /\ NonBlank(question.text)
           THEN <<Trim(question.text)>> ELSE <<>>)
            \o SheetQuestions(data, i + 1)
RECURSIVE SheetRows(_, _)
SheetRows(data, i) ==
  IF i > Len(data) THEN <<>>
  ELSE LET question == data[i].question
       IN (IF question.isString /\ NonBlank(question.text)
           THEN <<data[i]>> ELSE <<>>)
            \o SheetRows(data, i + 1)

\* POST /upload and processExcelFile up to the first call of processQuestions
UploadValidate(req) ==
  IF ~req.hasFile THEN Err(400, "No file uploaded")
  ELSE IF req.data = <<>>
  THEN Err(500, "Error processing Excel file: Excel file is empty")
  ELSE IF Trim(toLowerCase(req.data[1].question.text)) \notin questionColumnNames
  THEN Err(500, "Error processing Excel file: No question column found in the Excel file")
  ELSE IF SheetQuestions(req.data, 2) = <<>>
  THEN Err(500, "Error processing Excel file: No valid questions found in the Excel file")
  ELSE NoResponse

Upload(p, req) ==
  /\ Arrives(p)
  /\ LET v == UploadValidate(req)
         questions == SheetQuestions(req.data, 2)
         rowData == SheetRows(req.data, 2)
         l == [Fresh(p) EXCEPT !.upload = TRUE, !.data = req.data]
     IN proc' = [q \in DOMAIN proc |->
                   IF q # p THEN Released(proc[q])
                   ELSE IF v # NoResponse THEN Finish(l, v)
                   ELSE IF Len(questions) > MAX_QUESTIONS_PER_BATCH
                   THEN EnterCall([l EXCEPT !.sheetQuestions = questions,
                                            !.sheetRows = rowData],
                                  ChunkSlice(questions, 0),
                                  ChunkSlice(rowData, 0))
                   ELSE EnterCall([l EXCEPT !.sheetQuestions = questions,
                                            !.sheetRows = rowData],
                                  questions, rowData)]
  /\ UNCHANGED <<variant, probe, file, now, semVars>>

\* one upload
NextUpload ==
  \/ \E req \in Uploads : Upload(1, req)
  \/ \E p \in Procs, ok \in BOOLEAN : SemReadDone(p, ok)
  \/ \E p \in Procs : LimiterStart(p)
  \/ \E p \in Procs, outcome \in JudgeOutcomes : JudgeReturn(p, outcome)
  \/ \E p \in Procs : BackoffDone(p)
  \/ \E p \in Procs, ok \in BOOLEAN : SemWriteDone(p, ok)

SpecUpload == InitSem /\ [][NextUpload]_vars

(***************************************************************************)
(* One judge response taken through the job of checkSimilarity             *)
(***************************************************************************)
\* what the judge is asked for: the score, the flag, and the two optional
\* members
Payloads ==
  [score : {"0.92", "0.7", "0"}, same : {"true", "false"},
   reasons : BOOLEAN, analysis : BOOLEAN]

\* how the response differs from the bare object
Defects == [fenced : BOOLEAN, trailingComma : BOOLEAN, missingBrace : BOOLEAN]

NoDefects == [fenced |-> FALSE, trailingComma |-> FALSE, missingBrace |-> FALSE]

Member(name, value) == <<Quote, name, Quote, ":", " ">> \o value

\* response.text() for a payload and its defects
Render(payload, defects) ==
  (IF defects.fenced THEN <<"~~~json", " ">> ELSE <<>>)
  \o <<"{">>
  \o Member("similarityScore", <<payload.score>>)
  \o <<",", " ">> \o Member("isSameQuestion", <<payload.same>>)
  \o (IF payload.reasons
      THEN <<",", " ">> \o Member("reasons", <<"[", Quote, "why", Quote, "]">>)
      ELSE <<>>)
  \o (IF payload.analysis
      THEN <<",", " ">> \o Member("analysis", <<Quote, "because", Quote>>)
      ELSE <<>>)
  \o (IF defects.trailingComma THEN <<",">> ELSE <<>>)
  \o (IF defects.missingBrace THEN <<>> ELSE <<"}">>)
  \o (IF defects.fenced THEN <<" ", "~~~">> ELSE <<>>)

InitParse ==
  /\ variant = "semantic"
  /\ file = <<>>
  /\ now = 0
  /\ proc = [p \in Procs |-> IdleProc]
  /\ similarityCache = <<>>
  /\ limiter = [running |-> 0, reservoir |-> GEMINI_REQUESTS_PER_MINUTE]
  /\ allJudgeFailed = TRUE
  /\ \E payload \in Payloads, defects \in Defects :
       probe = [stage |-> "text", payload |-> payload, defects |-> defects,
                text |-> Render(payload, defects)]

\* the job runs on the text: extraction, sanitizeJsonString, JSON.parse
ParseResponse ==
  /\ probe.stage = "text"
  /\ probe' = [stage |-> "parsed", payload |-> probe.payload,
               defects |-> probe.defects, text |-> probe.text,
               job |-> JudgeJob(TextOutcome(probe.text))]
  /\ UNCHANGED <<variant, file, now, proc, semVars>>

NextParse == ParseResponse

SpecParse == InitParse /\ [][NextParse]_vars

(***************************************************************************)
(* sanitizeJsonString applied to a string, and to its own result           *)
(***************************************************************************)
MaxText == 4

\* the strings of up to MaxText tokens: the characters the three patterns of
\* sanitizeJsonString look at, and a word
TextTokens == {",", " ", "}", "]", Quote, Backslash, "a"}
Strings == SeqsUpTo(TextTokens, MaxText)

InitSanitize ==
  /\ variant = "semantic"
  /\ file = <<>>
  /\ now = 0
  /\ proc = [p \in Procs |-> IdleProc]
  /\ similarityCache = <<>>
  /\ limiter = [running |-> 0, reservoir |-> GEMINI_REQUESTS_PER_MINUTE]
  /\ allJudgeFailed = TRUE
  /\ \E jsonString \in Strings : probe = [stage |-> "string", s |-> jsonString]

\* sanitizeJsonString(s)
SanitizeOnce ==
  /\ probe.stage = "string"
  /\ probe' = [stage |-> "once", s |-> probe.s, once |-> sanitizeJsonString(probe.s)]
  /\ UNCHANGED <<variant, file, now, proc, semVars>>

\* sanitizeJsonString(sanitizeJsonString(s))
SanitizeAgain ==
  /\ probe.stage = "once"
  /\ probe' = [stage |-> "twice", s |-> probe.s, once |-> probe.once,
               twice |-> sanitizeJsonString(probe.once)]
  /\ UNCHANGED <<variant, file, now, proc, semVars>>

NextSanitize == SanitizeOnce \/ SanitizeAgain

SpecSanitize == InitSanitize /\ [][NextSanitize]_vars

(***************************************************************************)
(* Claims                                                                  *)
(***************************************************************************)
LexicalSimilarity(a, b) == compareTwoStrings(toLowerCase(a), toLowerCase(b))

ResultsComputed(p) == proc[p].pc \in {"writing", "done"} /\ proc[p].results # <<>>

\* C1: in the lexical processQuestions, result j is a duplicate exactly when
\* a question of the loaded corpus, or an earlier question of the same batch
\* that was accepted as unique, is lexically more similar to question j than
\* the threshold.
C1_LexicalDuplicateIff ==
  \A p \in Procs :
    ResultsComputed(p) =>
      /\ Len(proc[p].results) = Len(proc[p].validQuestions)
      /\ \A j \in 1..Len(proc[p].results) :
           LET q == proc[p].validQuestions[j]
           IN proc[p].results[j].isDuplicate <=>
                \/ \E k \in 1..Len(proc[p].existingQuestions) :
                     GT(LexicalSimilarity(q, proc[p].existingQuestions[k].text),
                        Threshold)
                \/ \E i \in 1..(j - 1) :
                     /\ ~proc[p].results[i].isDuplicate
                     /\ GT(LexicalSimilarity(q, proc[p].validQuestions[i]),
                           Threshold)

\* the growth example: unique, duplicate of the first, unique, on an empty corpus
C1_Witness ==
  \E p \in Procs :
    /\ ResultsComputed(p)
    /\ proc[p].existingQuestions = <<>>
    /\ Len(proc[p].results) = 3
    /\ ~proc[p].results[1].isDuplicate
    /\ proc[p].results[2].isDuplicate
    /\ ~proc[p].results[3].isDuplicate

\* a judge call for the pair (current question, candidate) is under way
JudgeCall(p) == proc[p].pc \in {"queued", "judging"}

\* the texts of a sequence of records
Texts(records) == {records[k].text : k \in 1..Len(records)}

Answered(p) == proc[p].pc = "done" /\ proc[p].response.status = 200

\* no other pair of texts, case aside, shares the cache key of (a, b)
KeyOfOnePair(a, b) ==
  \A c \in SemQuestions, d \in SemQuestions :
    CacheKey(c, d) = CacheKey(a, b) =>
      toLowerCase(c) = toLowerCase(a) /\ toLowerCase(d) = toLowerCase(b)

\* C2: the similarity cache is order-independent and case-insensitive: once
\* a verdict is stored for (b, a), in any letter case, no judge call is
\* issued for (a, b).
C2_CacheOrderIndependent ==
  \A p \in Procs :
    JudgeCall(p) =>
      LET a == CurrentQuestion(proc[p])
          b == CurrentCandidate(proc[p])
      IN KeyOfOnePair(b, a) => ~CacheHas(similarityCache, CacheKey(b, a))

\* C3: the same single-question batch processed twice in succession: when
\* the first run reports the question unique, the second run reports it a
\* duplicate.
C3_SecondRunDuplicate ==
  ( /\ Answered(1) /\ Answered(2)
    /\ proc[2].sequential
    /\ Len(proc[1].validQuestions) = 1
    /\ proc[2].validQuestions = proc[1].validQuestions
    /\ Len(proc[1].response.results) = 1
    /\ Len(proc[2].response.results) = 1
    /\ ~proc[1].response.results[1].isDuplicate )
  => proc[2].response.results[1].isDuplicate

\* C4: every judge call is for a pair (current question, candidate) whose
\* lexical similarity is at least PREFILTER_THRESHOLD, the candidate being a
\* question of the loaded corpus or one accepted earlier in the same batch.
C4_JudgeOnlyAbovePrefilter ==
  \A p \in Procs :
    JudgeCall(p) =>
      LET a == CurrentQuestion(proc[p])
          b == CurrentCandidate(proc[p])
      IN /\ GE(LexicalSimilarity(a, b), PREFILTER_THRESHOLD)
         /\ \/ b \in Texts(proc[p].existingQuestions)
            \/ \E k \in 1..Len(proc[p].newQuestions) :
                 /\ proc[p].newQuestions[k].text = b
                 /\ proc[p].newQuestions[k].id[3] < proc[p].pos

\* a judge call for a candidate accepted earlier in the batch, after a corpus
\* question below the pre-filter was passed over
C4_Witness ==
  \E p \in Procs :
    /\ proc[p].pc = "judging"
    /\ proc[p].phase = "new"
    /\ \E k \in 1..Len(proc[p].existingQuestions) :
         LT(LexicalSimilarity(CurrentQuestion(proc[p]),
                              proc[p].existingQuestions[k].text),
            PREFILTER_THRESHOLD)

VerdictFields == {"similarityScore", "isSameQuestion", "reasons", "analysis"}

\* C5: no failure of the judge escapes checkSimilarity: every verdict it
\* resolves with carries similarityScore, isSameQuestion, reasons and
\* analysis, and no request that passed validation is answered with an error.
C5_JudgeFailureContained ==
  /\ \A key \in DOMAIN similarityCache :
       DOMAIN similarityCache[key] = VerdictFields
  /\ \A p \in Procs :
       (proc[p].pc = "done" /\ proc[p].validQuestions # <<>>) =>
         /\ proc[p].response.status = 200
         /\ Len(proc[p].response.results) = Len(proc[p].validQuestions)

\* a request answered after every judge call failed, the last one on its
\* second attempt after a rate-limit error
C5_Witness ==
  \E p \in Procs :
    /\ Answered(p)
    /\ proc[p].retryCount = 1
    /\ allJudgeFailed
    /\ \E key \in DOMAIN similarityCache :
         similarityCache[key].reasons = FallbackVerdict(Zero).reasons

\* the lexical score from which the fallback is taken as certain
HIGH_CONFIDENCE == Frac(95, 100)

\* the records a request accepted before it came to position j
AcceptedBefore(p, j) ==
  {proc[p].newQuestions[k].text :
     k \in {i \in 1..Len(proc[p].newQuestions) : proc[p].newQuestions[i].id[3] < j}}

\* C6: when every judge call fails, a question whose lexical score against a
\* candidate (a corpus question, or one accepted earlier in the batch) is at
\* least 0.95 is reported with isDuplicate = true.
C6_FallbackStillDuplicate ==
  allJudgeFailed =>
    \A p \in Procs :
      (Answered(p) /\ proc[p].results # <<>>) =>
        \A j \in 1..Len(proc[p].results) :
          (\E b \in Texts(proc[p].existingQuestions) \cup AcceptedBefore(p, j) :
              GE(LexicalSimilarity(proc[p].validQuestions[j], b), HIGH_CONFIDENCE))
          => proc[p].results[j].isDuplicate

\* C7: whenever the write of the corpus at the end of a batch fails, the
\* caller gets a failure indication, not an ordinary successful answer.
C7_FlushFailureSurfaced ==
  \A p \in Procs :
    (proc[p].pc = "done" /\ proc[p].writeFailed) => proc[p].response.status # 200

\* C8: when the write of the corpus at the end of a batch fails, the caller
\* still receives one result per valid question.
C8_ResultsSurviveFlushFailure ==
  \A p \in Procs :
    (proc[p].pc = "done" /\ proc[p].writeFailed) =>
      Len(proc[p].response.results) = Len(proc[p].validQuestions)

IsPrefix(s, t) == Len(s) <= Len(t) /\ SubSeq(t, 1, Len(s)) = s

\* the step in which the request p writes the corpus
Writes(p) ==
  proc[p].pc = "writing" /\ proc'[p].pc = "done" /\ ~proc'[p].writeFailed

\* C9: after a run that writes the corpus, every record stored before the
\* run is still there, unchanged and in order, as a prefix of the stored
\* corpus; also when loading the corpus at the start of the batch failed.
C9_CorpusAppendOnly ==
  [][\A p \in Procs : Writes(p) => IsPrefix(proc[p].storedBefore, file')]_vars

\* C10: two batches submitted concurrently do not interleave: once both are
\* answered, the stored corpus holds every question either of them accepted
\* as unique.
C10_NoLostUpdate ==
  ( /\ Answered(1) /\ Answered(2)
    /\ ~proc[2].sequential
    /\ \A p \in Procs : /\ proc[p].undisturbed
                        /\ ~proc[p].readFailed
                        /\ ~proc[p].writeFailed )
  => \A p \in Procs : Texts(proc[p].newQuestions) \subseteq Texts(file)

\* C11: a cached verdict is reused verbatim until reset: except in a reset,
\* no step removes an entry of the similarity cache or replaces its verdict,
\* also when batches run concurrently.
C11_CachedVerdictStable ==
  [][ResetQuestions
     \/ \A key \in DOMAIN similarityCache :
          /\ key \in DOMAIN similarityCache'
          /\ similarityCache'[key] = similarityCache[key]]_vars

RECURSIVE Pow2(_)
Pow2(n) == IF n = 0 THEN 1 ELSE 2 * Pow2(n - 1)

\* C12: on a rate-limit failure the client retries with exponential backoff:
\* the delay before retry k is the base delay doubled k - 1 times, the
\* retries of one pair are bounded, and the rate-limit failure of the last
\* attempt resolves with the degraded verdict.
C12_BackoffDoublesAndEnds ==
  [][\A p \in Procs :
       /\ proc'[p].pc = "backoff" =>
            proc'[p].delayMs = RETRY_DELAY_MS * Pow2(proc'[p].retryCount)
       /\ proc'[p].retryCount <= MAX_RETRIES
       /\ (proc[p].retryCount = MAX_RETRIES /\ JudgeReturn(p, ErrorOutcome(429))) =>
            LET a == CurrentQuestion(proc[p])
                b == CurrentCandidate(proc[p])
            IN /\ CacheHas(similarityCache', CacheKey(a, b))
               /\ similarityCache'[CacheKey(a, b)] =
                    FallbackVerdict(LexicalSimilarity(a, b))]_vars

\* a request waits out the delay of its first retry
C12_Witness ==
  \E p \in Procs :
    /\ proc[p].pc = "backoff"
    /\ proc[p].retryCount = 0
    /\ proc[p].delayMs = RETRY_DELAY_MS

\* the answers of the judge that do not parse into a verdict
MalformedOutcomes == {o \in JudgeOutcomes : o.kind = "text" /\ JudgeJobs[o].threw}

\* the request p is about to ask the judge again about the same pair
AsksAgain(p) ==
  /\ proc'[p].pc \in {"backoff", "queued"}
  /\ proc'[p].pos = proc[p].pos
  /\ proc'[p].phase = proc[p].phase
  /\ proc'[p].cidx = proc[p].cidx

\* C13: when the answer of the judge cannot be parsed into a verdict, the
\* client asks the judge once more about the pair before it falls back to
\* the degraded verdict.
C13_MalformedRetriedOnce ==
  [][\A p \in Procs, o \in MalformedOutcomes :
       (proc[p].retryCount = 0 /\ JudgeReturn(p, o)) => AsksAgain(p)]_vars

\* the verdict a payload encodes
Encoded(payload) ==
  [similarityScore |-> NumberValue(payload.score),
   isSameQuestion |-> payload.same = "true",
   reasons |-> IF payload.reasons THEN <<"reasons of the judge">> ELSE <<>>,
   analysis |-> IF payload.analysis THEN "analysis of the judge"
                ELSE "No detailed analysis provided"]

\* C14: a response wrapped in fences, with a trailing comma and with a
\* missing closing brace parses to the same verdict as the bare payload, and
\* a well-formed response parses to the verdict it encodes.
C14_SanitizerRoundTrip ==
  probe.stage = "parsed" => probe.job = Returned(Encoded(probe.payload))

\* C15: when the parsed response of the judge has no score, the verdict
\* takes the lexical score of the pair; when it has no isSameQuestion, the
\* verdict takes (score > SIMILARITY_THRESHOLD).
C15_MissingFieldsDefault ==
  [][\A p \in Procs :
       JudgeReturn(p, TextOutcome(EmptyObjectText)) =>
         LET a == CurrentQuestion(proc[p])
             b == CurrentCandidate(proc[p])
             verdict == similarityCache'[CacheKey(a, b)]
         IN /\ verdict.similarityScore = LexicalSimilarity(a, b)
            /\ verdict.isSameQuestion =
                 GT(verdict.similarityScore, SIMILARITY_THRESHOLD)]_vars

\* the positions of the entries of a call that are strings with a non-blank
\* character, and the position of the k-th of them
ValidPositions(items) ==
  {i \in 1..Len(items) : items[i].isString /\ NonBlank(items[i].text)}
NthValid(items, k) ==
  CHOOSE i \in ValidPositions(items) :
    Cardinality({j \in ValidPositions(items) : j <= i}) = k

\* C16: a call of processQuestions that returns gives exactly one result per
\* valid entry of its input, and result k carries the text of the k-th valid
\* entry, whatever the grouping into sub-batches.
C16_ResultsInInputOrder ==
  \A p \in Procs :
    Answered(p) =>
      LET items == proc[p].questions
          results == proc[p].response.results
      IN /\ Len(results) = Cardinality(ValidPositions(items))
         /\ \A k \in 1..Len(results) :
              results[k].question = items[NthValid(items, k)].text

\* a returned call whose valid entries fill more than one sub-batch, the
\* first and the last of them different
C16_Witness ==
  \E p \in Procs :
    /\ Answered(p)
    /\ Len(proc[p].response.results) > GEMINI_BATCH_SIZE
    /\ proc[p].response.results[1].question
         # proc[p].response.results[GEMINI_BATCH_SIZE + 1].question

\* C20: the result produced for input entry questions[p] carries rowData[p],
\* also when other entries of the call are dropped.
C20_RowDataOfOwnEntry ==
  \A p \in Procs :
    (Answered(p) /\ proc[p].rowData # <<>>) =>
      \A k \in 1..Len(proc[p].response.results) :
        proc[p].response.results[k].rowData
          = proc[p].rowData[NthValid(proc[p].questions, k)]

\* the inputs that are not an array or have no valid entry
InvalidCalls ==
  {q \in CallQuestions : ~q.isArray \/ ValidPositions(q.items) = {}}

\* C17: a call of processQuestions whose input is not an array, or has no
\* string with a non-blank character, ends at once with an error: the corpus
\* is not loaded, no judge call is made, and the persisted corpus, the cache
\* and the limiter are as they were.
C17_ValidationBeforeWork ==
  [][\A questions \in InvalidCalls :
       \A rowData \in {<<>>, RowsFor(questions.items)} :
         SemCall(1, questions, rowData)
         => /\ proc'[1].pc = "done"
            /\ proc'[1].response.status # 200
            /\ proc'[1].response.error # ""
            /\ proc'[1].response.results = <<>>
            /\ ~JudgeCall(1)'
            /\ file' = file
            /\ similarityCache' = similarityCache
            /\ limiter' = limiter]_vars

\* a call whose entries are all blank or not strings has been refused
C17_Witness ==
  \E p \in Procs :
    /\ proc[p].pc = "done"
    /\ proc[p].questions # <<>>
    /\ ValidPositions(proc[p].questions) = {}
    /\ proc[p].response.error = "No valid questions provided"

\* C18: a batch with more entries than the configured maximum is refused as
\* a whole at every entry point: the request ends with an error and without
\* results, and nothing of it goes on to be compared or stored.
C18_OverlongBatchRejected ==
  [][\A p \in Procs :
       LexCheckBatch(p, ArrayBody(OverlongBatch))
       => /\ proc'[p].pc = "done"
          /\ proc'[p].response.status # 200
          /\ proc'[p].response.results = <<>>
          /\ proc'[p].validQuestions = <<>>]_vars

\* C19: when processExcelFile works through a sheet chunk by chunk, every
\* question accepted as unique in an earlier chunk is in the corpus that a
\* later chunk compares against, in every execution.
C19_ChunksKeepGrowth ==
  \A p \in Procs :
    (proc[p].upload /\ proc[p].chunk > 0 /\ proc[p].pc \notin {"idle", "reading"})
    => \A k \in 1..proc[p].chunk :
         ~proc[p].batchResults[k].isDuplicate
         => proc[p].batchResults[k].question \in Texts(proc[p].existingQuestions)

\* the judge requests in flight, and those waiting for the limiter
InFlight == {p \in DOMAIN proc : proc[p].pc = "judging"}
Waiting == {p \in DOMAIN proc : proc[p].pc = "queued"}

\* C21: at every moment at most MAX_CONCURRENT judge requests are in flight
\* across all batches, and no more than GEMINI_REQUESTS_PER_MINUTE are started
\* in one refresh window (the reservoir, refilled at the refresh and taken
\* from at every start, never goes below zero); the others wait in the queue.
C21_RateGateBounds ==
  /\ Cardinality(InFlight) <= MAX_CONCURRENT
  /\ Cardinality(InFlight) = limiter.running
  /\ limiter.reservoir >= 0
  /\ limiter.reservoir <= GEMINI_REQUESTS_PER_MINUTE

\* two requests in flight and a third one held back in the queue with units
\* left in the reservoir
C21_Witness ==
  /\ Cardinality(InFlight) = MAX_CONCURRENT
  /\ Waiting # {}
  /\ limiter.reservoir > 0

\* C22: no two records of the persisted corpus have the same id, after any
\* sequence of batches, also of batches accepted in the same clock tick.
C22_RecordIdsUnique ==
  \A i \in 1..Len(file), j \in 1..Len(file) :
    i # j => file[i].id # file[j].id

\* the texts of s lexically close enough to a to be looked up, in the order of s
Near(a, s) ==
  SelectSeq(s, LAMBDA b : GE(QuickSimilarity(a, b), PREFILTER_THRESHOLD))

TextsSeq(records) == [k \in 1..Len(records) |-> records[k].text]

\* the candidates of question j of request p in the order of examination:
\* the corpus in its order, then the questions accepted before j in the
\* order of their acceptance
CandidatesInOrder(p, j) ==
  LET a == proc[p].validQuestions[j]
  IN Near(a, TextsSeq(proc[p].existingQuestions))
       \o Near(a, TextsSeq(SelectSeq(proc[p].newQuestions,
                                     LAMBDA r : r.id[3] < j)))

\* the verdict on record for the pair triggers the duplicate decision
Triggers(a, b) ==
  /\ CacheHas(similarityCache, CacheKey(a, b))
  /\ \/ similarityCache[CacheKey(a, b)].isSameQuestion
     \/ GT(similarityCache[CacheKey(a, b)].similarityScore, SIMILARITY_THRESHOLD)

\* the number of candidates of the current question examined so far
ExaminedSoFar(p) ==
  IF proc[p].phase = "existing" THEN proc[p].cidx - 1
  ELSE Len(Near(proc[p].validQuestions[proc[p].pos],
                TextsSeq(proc[p].existingQuestions)))
         + Len(Near(proc[p].validQuestions[proc[p].pos],
                    TextsSeq(SubSeq(proc[p].newQuestions, 1, proc[p].cidx - 1))))

\* C23: a question is a duplicate exactly when one of its candidates, taken
\* in corpus order and then in batch-acceptance order, has a verdict with
\* isSameQuestion or a score above SIMILARITY_THRESHOLD; and while a candidate
\* is with the judge, none of the candidates before it has such a verdict
\* (the first trigger ends the examination).
C23_FirstTriggerDecides ==
  \A p \in Procs :
    /\ \A j \in 1..Len(proc[p].results) :
         proc[p].results[j].isDuplicate
           <=> \E k \in 1..Len(CandidatesInOrder(p, j)) :
                 Triggers(proc[p].validQuestions[j], CandidatesInOrder(p, j)[k])
    /\ proc[p].pc \in {"queued", "judging", "backoff"}
         => \A k \in 1..ExaminedSoFar(p) :
              ~Triggers(proc[p].validQuestions[proc[p].pos],
                        CandidatesInOrder(p, proc[p].pos)[k])

\* a question found duplicate at its second candidate, the first one examined
\* without a trigger
C23_Witness ==
  \E p \in Procs, j \in 1..MaxBatch :
    /\ j <= Len(proc[p].results)
    /\ proc[p].results[j].isDuplicate
    /\ Len(CandidatesInOrder(p, j)) >= 2
    /\ CacheHas(similarityCache,
                CacheKey(proc[p].validQuestions[j], CandidatesInOrder(p, j)[1]))
    /\ ~Triggers(proc[p].validQuestions[j], CandidatesInOrder(p, j)[1])
    /\ Triggers(proc[p].validQuestions[j], CandidatesInOrder(p, j)[2])

\* the score on record for a pair
ScoreOf(a, b) == similarityCache[CacheKey(a, b)].similarityScore

\* how many candidates of question j were examined: up to the first trigger
ExaminedOf(p, j) ==
  LET c == CandidatesInOrder(p, j)
      t == {k \in 1..Len(c) : Triggers(proc[p].validQuestions[j], c[k])}
  IN IF t = {} THEN Len(c) ELSE CHOOSE k \in t : \A m \in t : k <= m

\* the reported score of result j is the highest score examined (zero when
\* nothing was examined)
ReportsHighestScore(p, j) ==
  LET a == proc[p].validQuestions[j]
      c == CandidatesInOrder(p, j)
      r == proc[p].results[j]
  IN /\ \A k \in 1..ExaminedOf(p, j) : GE(r.similarityScore, ScoreOf(a, c[k]))
     /\ \/ r.similarityScore = Zero
        \/ \E k \in 1..ExaminedOf(p, j) : ScoreOf(a, c[k]) = r.similarityScore

\* the first examined candidate of question j with the reported score
FirstWithReportedScore(p, j) ==
  LET a == proc[p].validQuestions[j]
      c == CandidatesInOrder(p, j)
      best == {k \in 1..ExaminedOf(p, j) :
                 ScoreOf(a, c[k]) = proc[p].results[j].similarityScore}
  IN c[CHOOSE k \in best : \A m \in best : k <= m]

\* several examined candidates of question j share the reported score
SharedHighest(p, j) ==
  LET a == proc[p].validQuestions[j]
      c == CandidatesInOrder(p, j)
  IN Cardinality({k \in 1..ExaminedOf(p, j) :
                    ScoreOf(a, c[k]) = proc[p].results[j].similarityScore}) >= 2

\* C24 (as amended): the reported similarityScore is the highest score among
\* the candidates examined before the decision; when that score is above the
\* reporting floor, mostSimilarQuestion is the first examined candidate with
\* that score, and otherwise it is null.
C24_FirstMaximumAboveFloor ==
  \A p \in Procs :
    \A j \in 1..Len(proc[p].results) :
      /\ ReportsHighestScore(p, j)
      /\ proc[p].results[j].mostSimilarQuestion =
           IF GT(proc[p].results[j].similarityScore, REPORTING_FLOOR)
           THEN FirstWithReportedScore(p, j) ELSE Null

\* two examined candidates of different text share the highest score, above
\* the floor, and the first of them is reported
C24_Witness ==
  \E p \in Procs :
    /\ Len(proc[p].results) >= 1
    /\ SharedHighest(p, 1)
    /\ CandidatesInOrder(p, 1)[1] # CandidatesInOrder(p, 1)[2]
    /\ GT(proc[p].results[1].similarityScore, REPORTING_FLOOR)
    /\ proc[p].results[1].mostSimilarQuestion = CandidatesInOrder(p, 1)[1]

\* C24: the reported similarityScore is the highest score among the examined
\* candidates, and when several examined candidates share that score the
\* reported mostSimilarQuestion is the one examined first.
C24_FirstMaximum ==
  \A p \in Procs :
    \A j \in 1..Len(proc[p].results) :
      /\ ReportsHighestScore(p, j)
      /\ SharedHighest(p, j) =>
           proc[p].results[j].mostSimilarQuestion = FirstWithReportedScore(p, j)

\* a request inside its decision loop, waiting for the judge
Deciding(p) == proc[p].pc \in {"queued", "judging", "backoff"}

\* C25: within one batch the decisions are serialized. While question k is
\* with the judge (a call, a retry or a backoff wait), the results of the
\* questions before it are all there and none for k or a later question; the
\* in-batch candidates are questions accepted at earlier positions, so the
\* candidate under comparison is never the question itself; and a result,
\* once given, does not change while the batch goes on.
C25_DecisionsSerialized ==
  /\ [](\A p \in Procs :
          Deciding(p) =>
            /\ Len(proc[p].results) = proc[p].pos - 1
            /\ \A k \in 1..Len(proc[p].newQuestions) :
                 proc[p].newQuestions[k].id[3] < proc[p].pos
            /\ proc[p].phase = "new" => proc[p].cidx \in 1..Len(proc[p].newQuestions))
  /\ [][\A p \in Procs :
          (Deciding(p) /\ proc'[p].pc # "idle") =>
            /\ IsPrefix(proc[p].results, proc'[p].results)
            /\ IsPrefix(proc[p].newQuestions, proc'[p].newQuestions)]_vars

\* the second question of a batch is with the judge, compared with the first
\* question, which was accepted before
C25_Witness ==
  \E p \in Procs :
    /\ proc[p].pc = "judging"
    /\ proc[p].pos = 2
    /\ proc[p].phase = "new"
    /\ proc[p].retryCount = 1
    /\ Len(proc[p].results) = 1

\* C26: sanitizeJsonString is idempotent: applied to its own result it
\* returns that result.
C26_SanitizerIdempotent ==
  probe.stage = "twice" => probe.twice = probe.once

\* C27: no batch waits forever. With the reservoir refilled again and again
\* and every judge request returning or failing, a checkSimilarity call that
\* waits for the judge (queued, in flight or backing off) returns, and a
\* processQuestions call that has started is answered with its results.
C27_EveryBatchCompletes ==
  \A p \in Procs :
    /\ Deciding(p) ~> ~Deciding(p)
    /\ (proc[p].pc \notin {"idle", "done"})
         ~> (proc[p].pc = "done" /\ proc[p].response.status = 200
             /\ Len(proc[p].response.results) = 1)

\* a request waits in the queue for the reservoir to be refilled
C27_Witness ==
  \E p \in Procs :
    /\ proc[p].pc = "queued"
    /\ proc[p].retryCount = MAX_RETRIES
    /\ limiter.reservoir = 0

\* the results of a batch that were not reported as duplicates, in order
Accepted(results) == SelectSeq(results, LAMBDA r : ~r.isDuplicate)

AcceptedTexts(results) ==
  [k \in 1..Len(Accepted(results)) |-> Accepted(results)[k].question]

\* request p completes its write with success in this step
WriteSucceeds(p) ==
  /\ proc[p].pc = "writing"
  /\ proc'[p].pc # "writing"
  /\ ~proc'[p].writeFailed

\* C28: what a batch appends is what it accepted. A write that succeeds
\* leaves in the file the corpus the batch read followed by one record for
\* each result with isDuplicate = FALSE, with that result's text, in the
\* order of the results; no text reported as duplicate is among them; and the
\* file changes only through the write of a batch that accepted something.
C28_AppendsWhatItAccepted ==
  [][/\ \A p \in Procs :
          WriteSucceeds(p) =>
            LET read == Len(proc[p].existingQuestions)
            IN /\ Len(file') >= read
               /\ SubSeq(file', 1, read) = proc[p].existingQuestions
               /\ TextsSeq(SubSeq(file', read + 1, Len(file')))
                    = AcceptedTexts(proc[p].results)
     /\ (file' # file) =>
          \E p \in Procs : /\ WriteSucceeds(p)
                           /\ AcceptedTexts(proc[p].results) # <<>>
     /\ \A p \in Procs :
          (proc'[p].pc = "writing") => AcceptedTexts(proc'[p].results) # <<>>]_vars

\* a batch with a duplicate and an accepted question has been written
C28_Witness ==
  \E p \in Procs :
    /\ proc[p].pc = "done"
    /\ ~proc[p].writeFailed
    /\ Len(proc[p].response.results) = 2
    /\ proc[p].response.results[1].isDuplicate
    /\ ~proc[p].response.results[2].isDuplicate
    /\ Len(file) = Len(proc[p].existingQuestions) + 1
    /\ file[Len(file)].text = QXy

\* C29: in the lexical-only service no two records of the persisted corpus
\* are lexically more similar to each other than the threshold, whatever
\* batches have run since the empty corpus.
C29_CorpusDistinct ==
  variant = "service" =>
    \A i, j \in 1..Len(file) :
      i < j => ~GT(LexicalSimilarity(file[i].text, file[j].text),
                   CONFIG_SIMILARITY_THRESHOLD)

\* the second of two batches run one after the other found one record, turned
\* down a question close to it and stored another one
C29_Witness ==
  /\ variant = "service"
  /\ Len(file) = 2
  /\ \E p \in Procs :
       /\ proc[p].pc = "done"
       /\ proc[p].sequential
       /\ ~proc[p].readFailed
       /\ ~proc[p].writeFailed
       /\ Len(proc[p].existingQuestions) = 1
       /\ proc[p].response.status = 200
       /\ Len(proc[p].response.results) = 3
       /\ proc[p].response.results[1].isDuplicate
       /\ ~proc[p].response.results[3].isDuplicate

\* the rows of the questions whose result is not a duplicate, in order
RowsOfAccepted(rows, results) ==
  LET kept == SelectSeq([k \in 1..Len(results) |-> k],
                        LAMBDA k : ~results[k].isDuplicate)
  IN [i \in 1..Len(kept) |-> rows[kept[i]]]

\* C30: the cleaned sheet written by processExcelFile is the header row
\* followed by the source rows of the questions whose result has
\* isDuplicate = FALSE, in order, and no other row.
C30_CleanedSheetExact ==
  \A p \in Procs :
    (proc[p].pc = "done" /\ proc[p].upload /\ proc[p].response.status = 200) =>
      proc[p].cleaned = <<proc[p].data[1]>>
                          \o RowsOfAccepted(proc[p].sheetRows, proc[p].batchResults)

====
